---- MODULE Spec2Model ----
(***************************************************************************)
(* Model of the HTML post-processor of MarkdownToHtmlConverter             *)
(* (step_1_markdown_to_html_converter_V3_0.py).                            *)
(*                                                                         *)
(* The parsed document (the BeautifulSoup tree) is a sequence of body      *)
(* children; every node is a record with a tag, its attributes and its     *)
(* ordered children.  Python object identity is the field nid.             *)
(* A URL attribute is kept as the components urlparse() splits it into.    *)
(* Attribute values are modelled after the strip() every pass applies      *)
(* before it looks at them.                                                *)
(***************************************************************************)
EXTENDS Integers, Sequences, FiniteSets, TLC

VARIABLES doc, pc, run, err, pre, scan1, atNorm, out1, files, fetches, dropped,
          styles, css, got, source, again,
          temp, written, ran, pdf, reported

vars == <<doc, pc, run, err, pre, scan1, atNorm, out1, files, fetches, dropped,
          styles, css, got, source, again,
          temp, written, ran, pdf, reported>>

(***************************************************************************)
(* Bounds of the explored inputs.                                          *)
(***************************************************************************)
MaxBody == 2
MaxKids == 2
MaxBodyFull == 2
MaxAnchors == 2
MaxRuns == 2

(***************************************************************************)
(* Program constants.                                                      *)
(***************************************************************************)
OutputBasename == "out.html"
SiteHost == "docs.oasis-open.org"
LogoFile == "OASISLogo-v3.0.png"
OldLogoFile == "OASISLogo-v2.png"
LogoAlt == "OASIS Logo"
images_subdir == "images"
styles_subdir == "styles"
AvoidBreak == "page-break-before: avoid"
HeadingTags == {"h1", "h1big", "h2", "h3", "h4", "h5", "h6"}

(***************************************************************************)
(* URLs: the components of urlparse(value).  has = the attribute exists.   *)
(* The path is rooted ("/" first), the directory segments dir and the      *)
(* basename base (os.path.basename of the path).  hash = a '#' occurs.     *)
(***************************************************************************)
Url(scheme, host, rooted, dir, base, hash, frag) ==
    [has |-> TRUE, scheme |-> scheme, host |-> host, rooted |-> rooted,
     dir |-> dir, base |-> base, query |-> "", hash |-> hash, frag |-> frag]

NoUrl ==
    [has |-> FALSE, scheme |-> "", host |-> "", rooted |-> FALSE,
     dir |-> <<>>, base |-> "", query |-> "", hash |-> FALSE, frag |-> ""]

FragOnly(frag) == Url("", "", FALSE, <<>>, "", TRUE, frag)

RelFile(dir, base) == Url("", "", FALSE, dir, base, FALSE, "")

logo_canonical_remote ==
    Url("https", SiteHost, TRUE, <<"templates">>, LogoFile, FALSE, "")

_abs_doc_parsed ==
    Url("https", SiteHost, TRUE, <<"csaf">>, OutputBasename, FALSE, "")

_abs_doc_dir == _abs_doc_parsed.dir

PathEmpty(u) == ~u.rooted /\ u.dir = <<>> /\ u.base = ""

StartsWithHash(u) ==
    u.has /\ u.scheme = "" /\ u.host = "" /\ PathEmpty(u) /\ u.query = "" /\ u.hash

EmptyValue(u) ==
    ~u.has \/ (u.scheme = "" /\ u.host = "" /\ PathEmpty(u) /\ u.query = "" /\ ~u.hash)

(***************************************************************************)
(* Nodes.  Text nodes carry their words; a word is plain or a bare URL.    *)
(* A text node without words is whitespace only.                           *)
(***************************************************************************)
Node(tag, kids) ==
    [nid |-> 0, tag |-> tag, src |-> NoUrl, alt |-> "", srcset |-> FALSE,
     href |-> NoUrl, target |-> "", id |-> "", style |-> "", rel |-> "",
     words |-> <<>>, kids |-> kids]

Img(src, alt) == [Node("img", <<>>) EXCEPT !.src = src, !.alt = alt]

Word(w) == [k |-> "word", w |-> w, url |-> NoUrl]

UrlWord(u) == [k |-> "url", w |-> "", url |-> u]

Txt(words) == [Node("text", <<>>) EXCEPT !.words = words]

Ws == Txt(<<>>)

A(href, target, id, kids) ==
    [Node("a", kids) EXCEPT !.href = href, !.target = target, !.id = id]

H(tag, id, kids) == [Node(tag, kids) EXCEPT !.id = id]

Hr(style) == [Node("hr", <<>>) EXCEPT !.style = style]

P(kids) == Node("p", kids)

Stylesheet(rel, href) == [Node("link", <<>>) EXCEPT !.rel = rel, !.href = href]

_is_tag(n) == n.tag # "text"

(***************************************************************************)
(* Tree helpers.  A tree is the sequence of the children of body.          *)
(***************************************************************************)
RECURSIVE Stamp(_, _, _)
Stamp(n, id, step) ==
    [n EXCEPT !.nid = id,
              !.kids = [j \in DOMAIN n.kids |->
                           Stamp(n.kids[j], id + j * step, step \div 10)]]

StampDoc(d) == [i \in DOMAIN d |-> Stamp(d[i], i * 100, 10)]

RECURSIVE Flat(_)
\* all nodes below a child list, in document order (find_all order)
Flat(ks) ==
    IF ks = <<>> THEN <<>>
    ELSE <<Head(ks)>> \o Flat(Head(ks).kids) \o Flat(Tail(ks))

SelectTag(d, tag) == SelectSeq(Flat(d), LAMBDA n : n.tag = tag)

Ids(d) == {Flat(d)[i].nid : i \in DOMAIN Flat(d)}

Has(d, id) == id \in Ids(d)

Get(d, id) == LET f == Flat(d) IN f[CHOOSE i \in DOMAIN f : f[i].nid = id]

RECURSIVE ParentIn(_, _, _)
\* the parent of node id below the child list ks of node up
ParentIn(ks, up, id) ==
    IF ks = <<>> THEN 0
    ELSE IF Head(ks).nid = id THEN up
    ELSE LET below == ParentIn(Head(ks).kids, Head(ks).nid, id)
         IN  IF below # 0 THEN below ELSE ParentIn(Tail(ks), up, id)

BodyId == 1

Parent(d, id) == ParentIn(d, BodyId, id)

RECURSIVE Remove(_, _)
\* decompose(): the node and everything below it leaves the tree
Remove(ks, id) ==
    IF ks = <<>> THEN <<>>
    ELSE IF Head(ks).nid = id THEN Tail(ks)
    ELSE <<[Head(ks) EXCEPT !.kids = Remove(@, id)]>> \o Remove(Tail(ks), id)

RECURSIVE Replace(_, _, _)
Replace(ks, id, new) ==
    IF ks = <<>> THEN <<>>
    ELSE IF Head(ks).nid = id THEN <<new>> \o Tail(ks)
    ELSE <<[Head(ks) EXCEPT !.kids = Replace(@, id, new)]>> \o Replace(Tail(ks), id, new)

RECURSIVE MaxNid(_)
MaxNid(ks) ==
    IF ks = <<>> THEN 1
    ELSE LET a == Head(ks).nid
             b == MaxNid(Head(ks).kids)
             c == MaxNid(Tail(ks))
             ab == IF a > b THEN a ELSE b
         IN  IF ab > c THEN ab ELSE c

Fresh(d) == MaxNid(d) + 1

(***************************************************************************)
(* Logo deduplicator.                                                      *)
(***************************************************************************)
\* needle in value, for the file names the model's URLs are built from
Occurs(needle, u) ==
    /\ u.has
    /\ \/ u.base = needle
       \/ needle = "OASISLogo" /\ u.base \in {LogoFile, OldLogoFile}

\* logo_ok_src_regex: ".*/OASISLogo-v3\.0\.png$"
logo_ok_src_regex(u) ==
    /\ u.has /\ u.base = LogoFile /\ u.query = "" /\ ~u.hash
    /\ (u.rooted \/ u.dir # <<>> \/ u.host # "")

_looks_like_logo_src(u) ==
    IF EmptyValue(u) THEN FALSE
    ELSE Occurs(LogoFile, u) \/ u = logo_canonical_remote \/ logo_ok_src_regex(u)

_first_tag_child(ks) ==
    IF \E i \in DOMAIN ks : _is_tag(ks[i])
    THEN ks[CHOOSE i \in DOMAIN ks :
                /\ _is_tag(ks[i])
                /\ \A j \in 1..(i - 1) : ~_is_tag(ks[j])].nid
    ELSE 0

_is_canonical_logo_img(d, img) ==
    IF img.tag # "img" THEN FALSE
    ELSE IF ~(_looks_like_logo_src(img.src) /\ img.alt = LogoAlt) THEN FALSE
    ELSE LET parent == Parent(d, img.nid)
         IN  IF ~(parent # 0 /\ parent # BodyId /\ Get(d, parent).tag = "p"
                    /\ Parent(d, parent) = BodyId)
             THEN FALSE
             ELSE parent = _first_tag_child(d)

\* the test of lines 303 and 347
LogoLike(img) == Occurs("OASISLogo", img.src) \/ img.alt = LogoAlt

\* the test of lines 306 and 350: p holds images and whitespace only
OnlyImages(p) ==
    \A i \in DOMAIN p.kids :
        \/ (_is_tag(p.kids[i]) /\ p.kids[i].tag = "img")
        \/ (~_is_tag(p.kids[i]) /\ p.kids[i].words = <<>>)

\* one iteration of the loops of lines 300-309 and 344-353; a snapshot entry
\* destroyed by an earlier p.decompose() has lost its attrs and img.get raises
CleanupOne(st, id) ==
    IF st.err # "" THEN st
    ELSE IF ~Has(st.d, id) THEN [st EXCEPT !.err = "AttributeError"]
    ELSE LET img == Get(st.d, id)
             p == Parent(st.d, id)
         IN  IF LogoLike(img) /\ ~_is_canonical_logo_img(st.d, img)
             THEN IF p # BodyId /\ Get(st.d, p).tag = "p" /\ OnlyImages(Get(st.d, p))
                  THEN [st EXCEPT !.d = Remove(st.d, p)]
                  ELSE [st EXCEPT !.d = Remove(st.d, id)]
             ELSE st

RECURSIVE CleanupLoop(_, _)
CleanupLoop(st, snapshot) ==
    IF snapshot = <<>> THEN st
    ELSE CleanupLoop(CleanupOne(st, Head(snapshot).nid), Tail(snapshot))

CleanupScan(d) == CleanupLoop([d |-> d, err |-> ""], SelectTag(d, "img"))

\* variant: the node is appended to body instead
InsertFirst_Appended(d, node) == d \o <<node>>

\* first_tag.insert_before(node) among the children of body; body.insert(0, node)
\* when body has no element child
InsertFirst(d, node) ==
    LET first_tag == _first_tag_child(d)
    IN  IF first_tag # 0
        THEN LET i == CHOOSE i \in DOMAIN d : d[i].nid = first_tag
             IN  SubSeq(d, 1, i - 1) \o <<node>> \o SubSeq(d, i, Len(d))
        ELSE <<node>> \o d

\* lines 310-315
CurrentGood(d) ==
    LET first_el == _first_tag_child(d)
    IN  /\ first_el # 0
        /\ Get(d, first_el).tag = "p"
        /\ LET el == Get(d, first_el)
               direct == SelectSeq(el.kids, LAMBDA n : n.tag = "img")
               deep == SelectTag(el.kids, "img")
               maybe_img == IF direct # <<>> THEN direct ELSE deep
           IN  maybe_img # <<>> /\ _is_canonical_logo_img(d, Head(maybe_img))

\* lines 317-323
ExistingGood(d) ==
    SelectSeq(SelectTag(d, "img"),
              LAMBDA n : _looks_like_logo_src(n.src) /\ n.alt = LogoAlt)

\* lines 336-338
NewLogoParagraph(d) ==
    [P(<<[Img(logo_canonical_remote, LogoAlt) EXCEPT !.nid = Fresh(d) + 1]>>)
        EXCEPT !.nid = Fresh(d)]

\* lines 316-343
Promote(d) ==
    IF CurrentGood(d) THEN [d |-> d, err |-> ""]
    ELSE IF ExistingGood(d) # <<>>
    THEN LET img == Head(ExistingGood(d))
             up == Parent(d, img.nid)
             wrapped == up # BodyId /\ Get(d, up).tag = "p"
             d2 == IF wrapped THEN d
                   ELSE Replace(d, img.nid, [P(<<img>>) EXCEPT !.nid = Fresh(d)])
             container == IF wrapped THEN Get(d, up) ELSE Get(d2, Fresh(d))
         IN  IF _first_tag_child(d2) = container.nid
             THEN [d |-> d2, err |-> "ValueError"]
             ELSE [d |-> InsertFirst(Remove(d2, container.nid), container),
                   err |-> ""]
    ELSE [d |-> InsertFirst(d, NewLogoParagraph(d)), err |-> ""]

\* the whole pass; s1 is the tree after the first cleanup scan
_enforce_single_oasis_logo(d) ==
    LET a == CleanupScan(d)
        b == IF a.err # "" THEN a ELSE Promote(a.d)
        c == IF b.err # "" THEN b ELSE CleanupScan(b.d)
    IN  [d |-> c.d, err |-> c.err, s1 |-> a.d, s1err |-> a.err]

(***************************************************************************)
(* Anchor normalizer.                                                      *)
(***************************************************************************)
\* variant: the target of a bare fragment link is not popped
NormalizeAnchor_KeepsTarget(a) ==
    IF EmptyValue(a.href) \/ StartsWithHash(a.href) \/ a.href.frag = "" THEN a
    ELSE IF a.href.base = OutputBasename
              \/ (a.href.scheme = "" /\ a.href.host = "" /\ PathEmpty(a.href))
    THEN [a EXCEPT !.href = FragOnly(a.href.frag), !.target = ""]
    ELSE a

\* variant: only relative links are recognised as same-document links
NormalizeAnchor_RelativeOnly(a) ==
    IF EmptyValue(a.href) THEN a
    ELSE IF StartsWithHash(a.href) THEN [a EXCEPT !.target = ""]
    ELSE IF a.href.frag = "" THEN a
    ELSE IF a.href.scheme = "" /\ a.href.host = ""
              /\ (PathEmpty(a.href) \/ a.href.base = OutputBasename)
    THEN [a EXCEPT !.href = FragOnly(a.href.frag), !.target = ""]
    ELSE a

\* variant: the test for a fragment is missing
NormalizeAnchor_NoFragmentTest(a) ==
    IF EmptyValue(a.href) THEN a
    ELSE IF StartsWithHash(a.href) THEN [a EXCEPT !.target = ""]
    ELSE IF a.href.base = OutputBasename
              \/ (a.href.scheme = "" /\ a.href.host = "" /\ PathEmpty(a.href))
    THEN [a EXCEPT !.href = FragOnly(a.href.frag), !.target = ""]
    ELSE a

\* the body of the loop of lines 199-228 for one anchor
NormalizeAnchor(a) ==
    IF EmptyValue(a.href) THEN a
    ELSE IF StartsWithHash(a.href) THEN [a EXCEPT !.target = ""]
    ELSE IF a.href.frag = "" THEN a
    ELSE LET p == a.href
             same_doc ==
                 IF p.scheme = "" /\ p.host = ""
                 THEN PathEmpty(p) \/ p.base = OutputBasename
                 ELSE p.base = OutputBasename
         IN  IF same_doc
             THEN [a EXCEPT !.href = FragOnly(p.frag), !.target = ""]
             ELSE a

NormalizeNode(n) == IF n.tag = "a" /\ n.href.has THEN NormalizeAnchor(n) ELSE n

RECURSIVE _normalize_same_doc_anchors_for_web(_)
_normalize_same_doc_anchors_for_web(ks) ==
    [i \in DOMAIN ks |->
        NormalizeNode([ks[i] EXCEPT
            !.kids = _normalize_same_doc_anchors_for_web(@)])]

(***************************************************************************)
(* Parsing str(soup) again: adjacent text nodes come back as one.          *)
(***************************************************************************)
RECURSIVE MergeText(_)
MergeText(ks) ==
    IF ks = <<>> THEN <<>>
    ELSE IF Len(ks) > 1 /\ ks[1].tag = "text" /\ ks[2].tag = "text"
    THEN MergeText(<<[ks[1] EXCEPT !.words = @ \o ks[2].words]>> \o SubSeq(ks, 3, Len(ks)))
    ELSE <<[ks[1] EXCEPT !.kids = MergeText(@)]>> \o MergeText(Tail(ks))

Reparse(d) == MergeText(d)

(***************************************************************************)
(* Lines 418-439: header, logo figures and nav are dropped.                *)
(***************************************************************************)
RemoveFirstOf(d, tag) ==
    IF SelectTag(d, tag) = <<>> THEN d ELSE Remove(d, Head(SelectTag(d, tag)).nid)

RECURSIVE DropLogoFigures(_, _)
DropLogoFigures(d, figs) ==
    IF figs = <<>> THEN d
    ELSE LET id == Head(figs).nid
             imgs == IF Has(d, id) THEN SelectTag(Get(d, id).kids, "img") ELSE <<>>
         IN  IF imgs # <<>> /\ _looks_like_logo_src(Head(imgs).src)
             THEN DropLogoFigures(Remove(d, id), Tail(figs))
             ELSE DropLogoFigures(d, Tail(figs))

Prelude(d) ==
    LET a == RemoveFirstOf(d, "header")
        b == DropLogoFigures(a, SelectTag(a, "figure"))
    IN  RemoveFirstOf(b, "nav")

(***************************************************************************)
(* Banner normalizer.                                                      *)
(***************************************************************************)
\* lines 358-363: indexes of the body paragraphs whose first direct img is
\* the canonical logo
LogoParagraphs(d) ==
    {i \in DOMAIN d :
        /\ d[i].tag = "p"
        /\ LET imgs == SelectSeq(d[i].kids, LAMBDA n : n.tag = "img")
           IN  imgs # <<>> /\ _is_canonical_logo_img(d, Head(imgs))}

Least(S) == CHOOSE i \in S : \A j \in S : i <= j

\* lines 367-371
HeadingsAfter(d, i) == {j \in (i + 1)..Len(d) : d[j].tag \in HeadingTags}

\* variant: the walk stops at the first hr it removes
DropRules_FirstOnly(ks) ==
    IF \E i \in DOMAIN ks : ks[i].tag = "hr"
    THEN LET i == CHOOSE i \in DOMAIN ks :
                      ks[i].tag = "hr" /\ \A j \in 1..(i - 1) : ks[j].tag # "hr"
         IN  SubSeq(ks, 1, i - 1) \o SubSeq(ks, i + 1, Len(ks))
    ELSE ks

\* lines 375-383: every hr among the siblings between logo and heading goes
DropRules(ks) == SelectSeq(ks, LAMBDA n : n.tag # "hr")

\* variant: every h1 from the first heading on is renamed
_fix_top_banner_block_RenamesAll(d) ==
    IF LogoParagraphs(d) = {} THEN d
    ELSE LET lp == Least(LogoParagraphs(d))
         IN  IF HeadingsAfter(d, lp) = {} THEN d
             ELSE LET fh == Least(HeadingsAfter(d, lp))
                      first_heading == d[fh]
                      after == DropRules(SubSeq(d, lp + 1, fh - 1))
                                   \o SubSeq(d, fh, Len(d))
                      next_elem == Head(SelectSeq(after, _is_tag))
                      styled_hr ==
                          IF ~(next_elem.tag = "hr" /\ next_elem.style = AvoidBreak)
                                /\ next_elem.nid # first_heading.nid
                          THEN <<[Hr(AvoidBreak) EXCEPT !.nid = Fresh(d)]>>
                          ELSE <<>>
                      renamed ==
                          [i \in DOMAIN after |->
                              IF after[i].tag = "h1"
                              THEN [after[i] EXCEPT !.tag = "h1big"]
                              ELSE after[i]]
                  IN  SubSeq(d, 1, lp) \o styled_hr \o renamed

_fix_top_banner_block(d) ==
    IF LogoParagraphs(d) = {} THEN d
    ELSE LET lp == Least(LogoParagraphs(d))
         IN  IF HeadingsAfter(d, lp) = {} THEN d
             ELSE LET fh == Least(HeadingsAfter(d, lp))
                      first_heading == d[fh]
                      after == DropRules(SubSeq(d, lp + 1, fh - 1))
                                   \o SubSeq(d, fh, Len(d))
                      next_elem == Head(SelectSeq(after, _is_tag))
                      styled_hr ==
                          IF ~(next_elem.tag = "hr" /\ next_elem.style = AvoidBreak)
                                /\ next_elem.nid # first_heading.nid
                          THEN <<[Hr(AvoidBreak) EXCEPT !.nid = Fresh(d)]>>
                          ELSE <<>>
                      renamed ==
                          [i \in DOMAIN after |->
                              IF after[i].nid = first_heading.nid /\ after[i].tag = "h1"
                              THEN [after[i] EXCEPT !.tag = "h1big"]
                              ELSE after[i]]
                  IN  SubSeq(d, 1, lp) \o styled_hr \o renamed

(***************************************************************************)
(* Duplicate heading-anchor remover.                                       *)
(***************************************************************************)
RECURSIVE StringOf(_)
\* Tag.string: the only child if it is a string, else that child's .string;
\* <<>> stands for None
StringOf(n) ==
    IF Len(n.kids) # 1 THEN <<>>
    ELSE IF n.kids[1].tag = "text" THEN <<n.kids[1]>>
    ELSE StringOf(n.kids[1])

RECURSIVE UnwrapAnchors(_, _)
\* lines 406-412 below one heading with id hid
UnwrapAnchors(ks, hid) ==
    IF ks = <<>> THEN <<>>
    ELSE LET n == Head(ks)
         IN  IF n.tag = "a" /\ n.id = hid
             THEN StringOf(n) \o UnwrapAnchors(Tail(ks), hid)
             ELSE <<[n EXCEPT !.kids = UnwrapAnchors(@, hid)]>>
                      \o UnwrapAnchors(Tail(ks), hid)

RECURSIVE _remove_duplicate_heading_anchors(_)
_remove_duplicate_heading_anchors(ks) ==
    [i \in DOMAIN ks |->
        IF ks[i].tag \in HeadingTags /\ ks[i].id # ""
        THEN [ks[i] EXCEPT !.kids =
                 _remove_duplicate_heading_anchors(UnwrapAnchors(@, ks[i].id))]
        ELSE [ks[i] EXCEPT !.kids = _remove_duplicate_heading_anchors(@)]]

(***************************************************************************)
(* Plain-URL linkifier.                                                    *)
(***************************************************************************)
\* p.find(True): some element below p
HasElement(p) == \E i \in DOMAIN Flat(p.kids) : _is_tag(Flat(p.kids)[i])

\* p.get_text(): the words of the text nodes below p
RECURSIVE TextOf(_)
TextOf(ks) ==
    IF ks = <<>> THEN <<>>
    ELSE (IF Head(ks).tag = "text" THEN Head(ks).words ELSE TextOf(Head(ks).kids))
             \o TextOf(Tail(ks))

\* a word of text that contains "http" without being a URL
HttpWord == "http"

\* a word of text that reads as a start tag when it is parsed as HTML
TagWord == "<b>"

\* a word of text that reads as a character reference, and what it stands for
EntityWord == "&lt;"

EntityChar == "<"

\* a word of text that reads as TagWord once its character references are
\* decoded
EscapedTagWord == "&lt;b&gt;"

\* the text the parser makes of a word of character data
Unescaped(w) ==
    IF w = EntityWord THEN EntityChar
    ELSE IF w = EscapedTagWord THEN TagWord
    ELSE w

\* the basename of a URL with a double quote in it, and its part before the quote
QuotedBase == "a\"b"

QuotedBaseHead == "a"

\* "http" in text
MentionsHttp(words) ==
    \E i \in DOMAIN words : words[i].k = "url" \/ words[i].w = HttpWord

\* the value the parser reads from href="<url>": it ends at the first quote
HrefRead(u) == IF u.base = QuotedBase THEN [u EXCEPT !.base = QuotedBaseHead] ELSE u

RECURSIVE Linked(_, _)
\* line 188 and the parse of line 190: every URL becomes an anchor around
\* its own text, the words between stay text; the text is read as HTML, so a
\* word that reads as a start tag opens an element around all that follows
\* and a character reference becomes its character; ids are taken from next on
Linked(words, next) ==
    IF words = <<>> THEN <<>>
    ELSE IF Head(words).k = "url"
    THEN <<[A(HrefRead(Head(words).url), "", "",
              <<[Txt(<<Head(words)>>) EXCEPT !.nid = next + 1]>>)
               EXCEPT !.nid = next]>>
             \o Linked(Tail(words), next + 2)
    ELSE IF Head(words).w = TagWord
    THEN <<[Node("b", Linked(Tail(words), next + 1)) EXCEPT !.nid = next]>>
    ELSE <<[Txt(<<[Head(words) EXCEPT !.w = Unescaped(@)]>>) EXCEPT !.nid = next]>>
             \o Linked(Tail(words), next + 1)

LinkifyOne(d, id) ==
    LET p == Get(d, id)
    IN  IF HasElement(p) \/ ~MentionsHttp(TextOf(p.kids)) THEN d
        ELSE Replace(d, id,
                 [p EXCEPT !.kids = MergeText(Linked(TextOf(p.kids), Fresh(d)))])

RECURSIVE LinkifyLoop(_, _)
LinkifyLoop(d, ps) ==
    IF ps = <<>> THEN d
    ELSE LinkifyLoop(LinkifyOne(d, Head(ps).nid), Tail(ps))

_convert_plain_urls_to_links(d) ==
    LET soup == Reparse(d)
    IN  Reparse(LinkifyLoop(soup, SelectTag(soup, "p")))

(***************************************************************************)
(* Asset localizer, lines 449-487.  ok = the elements whose fetch          *)
(* succeeds.  A request is recorded with the file it is written to.        *)
(***************************************************************************)
Remote(u) == u.has /\ u.scheme \in {"http", "https"}

image_filename(u) == IF u.base = "" THEN "image" ELSE u.base

css_name(u) == IF u.base = "" THEN "style.css" ELSE u.base

Fetch(id, u, dir, name) == [id |-> id, url |-> u, dir |-> dir, name |-> name]

Got(id, dir, name) == [id |-> id, dir |-> dir, name |-> name]

\* lines 452-467 for one link
LocalizeCssOne(st, id, ok) ==
    LET link == Get(st.d, id)
        name == css_name(link.href)
        local == [link EXCEPT !.href = RelFile(<<styles_subdir>>, name)]
    IN  IF link.rel # "stylesheet" \/ ~Remote(link.href) THEN st
        ELSE IF name \in st.styles
        THEN [st EXCEPT !.d = Replace(st.d, id, local)]
        ELSE IF id \in ok
        THEN [st EXCEPT !.d = Replace(st.d, id, local),
                        !.styles = @ \cup {name},
                        !.fetches = Append(@, Fetch(id, link.href, styles_subdir, name)),
                        !.got = @ \cup {Got(id, styles_subdir, name)}]
        ELSE [st EXCEPT !.fetches = Append(@, Fetch(id, link.href, styles_subdir, name))]

RECURSIVE LocalizeCssLoop(_, _, _)
LocalizeCssLoop(st, links, ok) ==
    IF links = <<>> THEN st
    ELSE LocalizeCssLoop(LocalizeCssOne(st, Head(links).nid, ok), Tail(links), ok)

\* find_all("link", rel=True, href=True)
Stylesheets(d) == SelectSeq(SelectTag(d, "link"), LAMBDA n : n.rel # "" /\ n.href.has)

\* variant: the test for an existing local file is missing
LocalizeOne_AlwaysFetches(st, id, ok) ==
    LET img == Get(st.d, id)
        name == image_filename(img.src)
        local == [img EXCEPT !.src = RelFile(<<images_subdir>>, name),
                             !.srcset = FALSE]
    IN  IF ~Remote(img.src) THEN st
        ELSE IF id \in ok
        THEN [st EXCEPT !.d = Replace(st.d, id, local),
                        !.files = @ \cup {name},
                        !.fetches = Append(@, Fetch(id, img.src, images_subdir, name)),
                        !.got = @ \cup {Got(id, images_subdir, name)}]
        ELSE [st EXCEPT !.d = Remove(st.d, id),
                        !.fetches = Append(@, Fetch(id, img.src, images_subdir, name))]

\* variant: an image whose fetch failed stays in the tree
LocalizeOne_KeepsFailed(st, id, ok) ==
    LET img == Get(st.d, id)
        name == image_filename(img.src)
        local == [img EXCEPT !.src = RelFile(<<images_subdir>>, name),
                             !.srcset = FALSE]
    IN  IF ~Remote(img.src) THEN st
        ELSE IF name \in st.files
        THEN [st EXCEPT !.d = Replace(st.d, id, local)]
        ELSE IF id \in ok
        THEN [st EXCEPT !.d = Replace(st.d, id, local),
                        !.files = @ \cup {name},
                        !.fetches = Append(@, Fetch(id, img.src, images_subdir, name)),
                        !.got = @ \cup {Got(id, images_subdir, name)}]
        ELSE [st EXCEPT !.fetches = Append(@, Fetch(id, img.src, images_subdir, name))]

\* variant: srcset survives the localization
LocalizeOne_KeepsSrcset(st, id, ok) ==
    LET img == Get(st.d, id)
        name == image_filename(img.src)
        local == [img EXCEPT !.src = RelFile(<<images_subdir>>, name)]
    IN  IF ~Remote(img.src) THEN st
        ELSE IF name \in st.files
        THEN [st EXCEPT !.d = Replace(st.d, id, local)]
        ELSE IF id \in ok
        THEN [st EXCEPT !.d = Replace(st.d, id, local),
                        !.files = @ \cup {name},
                        !.fetches = Append(@, Fetch(id, img.src, images_subdir, name)),
                        !.got = @ \cup {Got(id, images_subdir, name)}]
        ELSE [st EXCEPT !.d = Remove(st.d, id),
                        !.fetches = Append(@, Fetch(id, img.src, images_subdir, name))]

\* lines 470-487 for one img
LocalizeOne(st, id, ok) ==
    LET img == Get(st.d, id)
        name == image_filename(img.src)
        local == [img EXCEPT !.src = RelFile(<<images_subdir>>, name),
                             !.srcset = FALSE]
    IN  IF ~Remote(img.src) THEN st
        ELSE IF name \in st.files
        THEN [st EXCEPT !.d = Replace(st.d, id, local)]
        ELSE IF id \in ok
        THEN [st EXCEPT !.d = Replace(st.d, id, local),
                        !.files = @ \cup {name},
                        !.fetches = Append(@, Fetch(id, img.src, images_subdir, name)),
                        !.got = @ \cup {Got(id, images_subdir, name)}]
        ELSE [st EXCEPT !.d = Remove(st.d, id),
                        !.fetches = Append(@, Fetch(id, img.src, images_subdir, name))]

RECURSIVE LocalizeLoop(_, _, _)
LocalizeLoop(st, imgs, ok) ==
    IF imgs = <<>> THEN st
    ELSE LocalizeLoop(LocalizeOne(st, Head(imgs).nid, ok), Tail(imgs), ok)

WithSrc(d) == SelectSeq(SelectTag(d, "img"), LAMBDA n : n.src.has)

LocalizeImages(st, ok) == LocalizeLoop(st, WithSrc(st.d), ok)

\* lines 449-487; flag = HTML_LOCALIZE_CSS is set
LocalizeAssets(st, flag, ok) ==
    LocalizeImages(IF flag THEN LocalizeCssLoop(st, Stylesheets(st.d), ok) ELSE st, ok)

(***************************************************************************)
(* Same-scope relativizer.                                                 *)
(***************************************************************************)
IsPrefix(a, b) == Len(a) <= Len(b) /\ SubSeq(b, 1, Len(a)) = a

\* variant: the comparison of scheme and host with the document's is missing
_is_same_site_same_scope_AnySite(u) ==
    IF u.scheme = "" \/ u.host = "" THEN NoUrl
    ELSE IF ~(u.rooted /\ IsPrefix(_abs_doc_dir, u.dir)) THEN NoUrl
    ELSE RelFile(SubSeq(u.dir, Len(_abs_doc_dir) + 1, Len(u.dir)), u.base)

\* the tail below the document directory, NoUrl for None
_is_same_site_same_scope(u) ==
    IF u.scheme = "" \/ u.host = "" THEN NoUrl
    ELSE IF <<u.scheme, u.host>> # <<_abs_doc_parsed.scheme, _abs_doc_parsed.host>>
    THEN NoUrl
    ELSE IF ~(u.rooted /\ IsPrefix(_abs_doc_dir, u.dir)) THEN NoUrl
    ELSE RelFile(SubSeq(u.dir, Len(_abs_doc_dir) + 1, Len(u.dir)), u.base)

\* lines 246-261 for one anchor
RelativizeAnchor(a) ==
    LET tail == _is_same_site_same_scope(a.href)
    IN  IF StartsWithHash(a.href) THEN a
        ELSE IF EmptyValue(tail) THEN a
        ELSE IF a.href.base = OutputBasename
        THEN [a EXCEPT !.href = IF a.href.frag # "" THEN FragOnly(a.href.frag)
                                 ELSE RelFile(<<>>, a.href.base),
                       !.target = ""]
        ELSE [a EXCEPT !.href = tail]

\* variant: a relative src is cut down to its basename as well
RelativizeImg_CutsRelative(img) ==
    LET tail == _is_same_site_same_scope(img.src)
    IN  IF EmptyValue(tail)
        THEN IF img.src.scheme = "" /\ img.src.host = ""
             THEN [img EXCEPT !.src = RelFile(<<>>, img.src.base)]
             ELSE img
        ELSE [img EXCEPT !.src = tail]

\* lines 271-274 for one img
RelativizeImg(img) ==
    LET tail == _is_same_site_same_scope(img.src)
    IN  IF EmptyValue(tail) THEN img ELSE [img EXCEPT !.src = tail]

\* lines 263-266 for one link
RelativizeLink(link) ==
    LET tail == _is_same_site_same_scope(link.href)
    IN  IF EmptyValue(tail) THEN link ELSE [link EXCEPT !.href = tail]

\* lines 267-270 for one script
RelativizeScript(s) ==
    LET tail == _is_same_site_same_scope(s.src)
    IN  IF EmptyValue(tail) THEN s ELSE [s EXCEPT !.src = tail]

RelativizeNode(n) ==
    IF n.tag = "a" /\ n.href.has THEN RelativizeAnchor(n)
    ELSE IF n.tag = "link" /\ n.href.has THEN RelativizeLink(n)
    ELSE IF n.tag = "script" /\ n.src.has THEN RelativizeScript(n)
    ELSE IF n.tag = "img" /\ n.src.has THEN RelativizeImg(n)
    ELSE n

RECURSIVE _relativize_same_scope_links(_)
_relativize_same_scope_links(ks) ==
    [i \in DOMAIN ks |->
        RelativizeNode([ks[i] EXCEPT !.kids = _relativize_same_scope_links(@)])]

(***************************************************************************)
(* State machine: pc is the pass _post_process_html runs next.             *)
(***************************************************************************)
SeqsUpTo(S, n) == UNION {[1..k -> S] : k \in 0..n}

NoScan == [d |-> <<>>, err |-> ""]

\* a first run that has not started: nothing recorded, nothing fetched
Fresh_run ==
    /\ run = 1
    /\ err = ""
    /\ pre = <<>>
    /\ scan1 = NoScan
    /\ atNorm = <<>>
    /\ out1 = <<>>
    /\ fetches = <<>>
    /\ dropped = {}
    /\ got = {}
    /\ source = doc
    /\ again = ""

\* no tool has been invoked: _post_process_html is called on its own
NoRuns == [pandoc |-> <<>>, wkhtmltopdf |-> <<>>]

\* convert() is not running: no temporary file, nothing written or reported
NoConversion ==
    /\ temp = FALSE
    /\ written = FALSE
    /\ ran = NoRuns
    /\ pdf = FALSE
    /\ reported = ""

\* HTML_LOCALIZE_CSS is not set and there is no styles directory
NoStyles == css = FALSE /\ styles = {}

\* line 441
StepLogo ==
    /\ pc = "logo"
    /\ LET r == _enforce_single_oasis_logo(doc)
       IN  /\ doc' = r.d
           /\ err' = r.err
           /\ scan1' = [d |-> r.s1, err |-> r.s1err]
           /\ pc' = IF r.err = "" THEN "banner" ELSE "raised"
    /\ pre' = doc
    /\ UNCHANGED <<run, atNorm, out1, files, fetches, dropped,
                 styles, css, got, source, again,
                 temp, written, ran, pdf, reported>>

\* lines 416-439
StepPrelude ==
    /\ pc = "begin"
    /\ doc' = Prelude(doc)
    /\ pre' = doc
    /\ pc' = "logo"
    /\ UNCHANGED <<run, err, scan1, atNorm, out1, files, fetches, dropped,
                 styles, css, got, source, again,
                 temp, written, ran, pdf, reported>>

\* line 442
StepBanner ==
    /\ pc = "banner"
    /\ doc' = _fix_top_banner_block(doc)
    /\ pre' = doc
    /\ pc' = "dupanchors"
    /\ UNCHANGED <<run, err, scan1, atNorm, out1, files, fetches, dropped,
                 styles, css, got, source, again,
                 temp, written, ran, pdf, reported>>

\* line 443
StepDupAnchors ==
    /\ pc = "dupanchors"
    /\ doc' = _remove_duplicate_heading_anchors(doc)
    /\ pre' = doc
    /\ pc' = "anchors"
    /\ UNCHANGED <<run, err, scan1, atNorm, out1, files, fetches, dropped,
                 styles, css, got, source, again,
                 temp, written, ran, pdf, reported>>

\* line 444
StepAnchors ==
    /\ pc = "anchors"
    /\ doc' = _normalize_same_doc_anchors_for_web(doc)
    /\ pre' = doc
    /\ atNorm' = doc
    /\ pc' = "linkify"
    /\ UNCHANGED <<run, err, scan1, out1, files, fetches, dropped,
                 styles, css, got, source, again,
                 temp, written, ran, pdf, reported>>

\* lines 446-447
StepLinkify ==
    /\ pc = "linkify"
    /\ doc' = _convert_plain_urls_to_links(doc)
    /\ pre' = doc
    /\ pc' = "assets"
    /\ UNCHANGED <<run, err, scan1, atNorm, out1, files, fetches, dropped,
                 styles, css, got, source, again,
                 temp, written, ran, pdf, reported>>

\* lines 449-487; every fetch may succeed or fail
StepAssets ==
    /\ pc = "assets"
    /\ \E ok \in SUBSET ({WithSrc(doc)[i].nid : i \in DOMAIN WithSrc(doc)}
                          \cup {Stylesheets(doc)[i].nid : i \in DOMAIN Stylesheets(doc)}) :
          LET r == LocalizeAssets([d |-> doc, files |-> files, styles |-> styles,
                                   fetches |-> <<>>, got |-> got], css, ok)
          IN  /\ doc' = r.d
              /\ files' = r.files
              /\ styles' = r.styles
              /\ fetches' = r.fetches
              /\ got' = r.got
              /\ dropped' = dropped \cup (Ids(doc) \ Ids(r.d))
    /\ pre' = doc
    /\ pc' = "relativize"
    /\ UNCHANGED <<run, err, scan1, atNorm, out1, css, source, again,
                 temp, written, ran, pdf, reported>>

\* lines 489-493
StepRelativize ==
    /\ pc = "relativize"
    /\ doc' = _relativize_same_scope_links(doc)
    /\ pre' = doc
    /\ pc' = "done"
    /\ UNCHANGED <<run, err, scan1, atNorm, out1, files, fetches, dropped,
                 styles, css, got, source, again,
                 temp, written, ran, pdf, reported>>

\* _post_process_html is called again on the HTML it returned; the images
\* directory is as the first run left it
Rerun ==
    /\ pc = "done"
    /\ run < MaxRuns
    /\ run' = run + 1
    /\ out1' = doc
    /\ doc' = Reparse(doc)
    /\ pc' = "begin"
    /\ pre' = <<>>
    /\ scan1' = NoScan
    /\ atNorm' = <<>>
    /\ fetches' = <<>>
    /\ again' = "output"
    /\ UNCHANGED <<err, files, dropped, styles, css, got, source,
                 temp, written, ran, pdf, reported>>

\* the converter is run again on the same source; the images and styles
\* directories are as the first run left them
RerunSource ==
    /\ pc = "done"
    /\ run < MaxRuns
    /\ run' = run + 1
    /\ out1' = doc
    /\ doc' = source
    /\ pc' = "begin"
    /\ pre' = <<>>
    /\ scan1' = NoScan
    /\ atNorm' = <<>>
    /\ fetches' = <<>>
    /\ again' = "source"
    /\ UNCHANGED <<err, files, dropped, styles, css, got, source,
                 temp, written, ran, pdf, reported>>

(***************************************************************************)
(* convert() of step 1 and of step 2: pc is the statement that runs next;  *)
(* ran holds the exit status of every invocation of each external tool.    *)
(***************************************************************************)
\* the state _post_process_html works on
post == <<doc, run, pre, scan1, atNorm, out1, files, fetches, dropped,
          styles, css, got, source, again>>

\* exit status of an external tool: zero, or not
ExitStatuses == {0, 1}

\* lines 520-523: ensure_toc_title logs and swallows whatever it raises
StepEnsureTocTitle ==
    /\ pc = "convert"
    /\ pc' = "pandoc"
    /\ UNCHANGED <<post, err, temp, written, ran, pdf, reported>>

\* subprocess.run without check=True: a non-zero exit goes unnoticed
StepPandoc_Unchecked ==
    /\ pc = "pandoc"
    /\ \E exit \in ExitStatuses :
          /\ ran' = [ran EXCEPT !.pandoc = Append(@, exit)]
          /\ temp' \in IF exit = 0 THEN {TRUE} ELSE {temp, TRUE}
          /\ err' = err
          /\ pc' = "read"
    /\ UNCHANGED <<post, written, pdf, reported>>

\* lines 159-177 and 524: pandoc writes temp_output.html; a non-zero exit
\* raises CalledProcessError, whatever pandoc has left behind
StepPandoc ==
    /\ pc = "pandoc"
    /\ \E exit \in ExitStatuses :
          /\ ran' = [ran EXCEPT !.pandoc = Append(@, exit)]
          /\ IF exit = 0
             THEN temp' = TRUE /\ err' = err /\ pc' = "read"
             ELSE /\ temp' \in {temp, TRUE}
                  /\ err' = "CalledProcessError"
                  /\ pc' = "finally"
    /\ UNCHANGED <<post, written, pdf, reported>>

\* lines 131-137 and 525: reading the temporary file can raise OSError, and
\* does when the file is not there
StepRead ==
    /\ pc = "read"
    /\ \E ok \in {b \in BOOLEAN : b => temp} :
          IF ok
          THEN pc' = "begin" /\ err' = err
          ELSE pc' = "finally" /\ err' = "OSError"
    /\ UNCHANGED <<post, temp, written, ran, pdf, reported>>

\* lines 139-145 and 527: writing the output file can raise OSError, before
\* or after the file has been touched
StepWrite ==
    /\ pc = "done"
    /\ ran.pandoc # <<>>
    /\ \E ok \in BOOLEAN :
          IF ok
          THEN written' = TRUE /\ err' = err /\ pc' = "finally"
          ELSE written' \in BOOLEAN /\ err' = "OSError" /\ pc' = "finally"
    /\ UNCHANGED <<post, temp, ran, pdf, reported>>

\* a finally clause that leaves the temporary file where it is
StepFinally_KeepsTemp ==
    /\ pc \in {"finally", "raised"}
    /\ ran.pandoc # <<>>
    /\ pc' = IF err = "" THEN "returned" ELSE "failed"
    /\ UNCHANGED <<post, err, temp, written, ran, pdf, reported>>

\* lines 528-536: the exception, if any, is logged and raised again; the
\* finally clause removes the temporary file if it exists
StepFinally ==
    /\ pc \in {"finally", "raised"}
    /\ ran.pandoc # <<>>
    /\ temp' = FALSE
    /\ pc' = IF err = "" THEN "returned" ELSE "failed"
    /\ UNCHANGED <<post, err, written, ran, pdf, reported>>

\* step 2, lines 232-296 and 312: wkhtmltopdf is run on the HTML file that is
\* there, whether this conversion wrote it or not; a non-zero exit raises
\* CalledProcessError
StepWkhtmltopdf ==
    /\ pc \in {"returned", "failed"}
    /\ \E exit \in ExitStatuses :
          /\ ran' = [ran EXCEPT !.wkhtmltopdf = Append(@, exit)]
          /\ pdf' \in {pdf, TRUE}
          /\ IF exit = 0
             THEN err' = "" /\ pc' = "verify"
             ELSE err' = "CalledProcessError" /\ pc' = "pdf_raised"
    /\ UNCHANGED <<post, temp, written, reported>>

\* step 2, lines 314-324: the PDF file has to exist
StepVerify ==
    /\ pc = "verify"
    /\ IF pdf
       THEN pc' = "pdf_returned" /\ err' = err
       ELSE pc' = "pdf_raised" /\ err' = "RuntimeError"
    /\ UNCHANGED <<post, temp, written, ran, pdf, reported>>

\* step 2, lines 376-392: main() prints the outcome and exits
StepReport ==
    /\ pc \in {"pdf_returned", "pdf_raised"}
    /\ reported' = IF pc = "pdf_returned" THEN "success" ELSE "failed"
    /\ pc' = "exit"
    /\ UNCHANGED <<post, err, temp, written, ran, pdf>>

\* the statements of the two convert() methods
StepConvert ==
    \/ StepEnsureTocTitle
    \/ StepPandoc
    \/ StepRead
    \/ StepWrite
    \/ StepFinally
    \/ StepWkhtmltopdf
    \/ StepVerify
    \/ StepReport

\* _post_process_html, called by convert()
StepPostProcess ==
    \/ StepPrelude
    \/ StepLogo
    \/ StepBanner
    \/ StepDupAnchors
    \/ StepAnchors
    \/ StepLinkify
    \/ StepAssets
    \/ StepRelativize

\* the passes that are tested on their own
Passes == {"logo", "banner", "dupanchors", "anchors", "linkify", "relativize"}

\* a pass is called a second time on the tree it has just produced; again
\* names the pass
Reapply ==
    /\ run = 1
    /\ again \in Passes
    /\ pc \notin {again, "raised"}
    /\ run' = 2
    /\ pc' = again
    /\ out1' = doc
    /\ UNCHANGED <<doc, err, pre, scan1, atNorm, files, fetches, dropped,
                   styles, css, got, source, again,
                 temp, written, ran, pdf, reported>>

\* one of the passes, called on its own
PassAlone ==
    /\ pc = again
    /\ \/ StepLogo
       \/ StepBanner
       \/ StepDupAnchors
       \/ StepAnchors
       \/ StepLinkify
       \/ StepRelativize

Next ==
    \/ StepPrelude
    \/ StepLogo
    \/ StepBanner
    \/ StepDupAnchors
    \/ StepAnchors
    \/ StepLinkify
    \/ StepAssets
    \/ StepRelativize
    \/ Rerun
    \/ RerunSource

(***************************************************************************)
(* Inputs of the logo deduplicator.                                        *)
(***************************************************************************)
PicRemote == Url("https", "example.com", TRUE, <<"img">>, "pic.png", FALSE, "")

ImgGood == Img(logo_canonical_remote, LogoAlt)

ImgBadAlt == Img(logo_canonical_remote, "logo")

ImgOther == Img(PicRemote, "pic")

SomeText == Txt(<<Word("w")>>)

LogoInlines == {ImgGood, ImgBadAlt, ImgOther, SomeText, Ws}

\* the parser never yields two text nodes in a row
Parsed(ks) == \A i \in 1..(Len(ks) - 1) : _is_tag(ks[i]) \/ _is_tag(ks[i + 1])

LogoBlocks ==
    {P(ks) : ks \in {k \in SeqsUpTo(LogoInlines, MaxKids) : k # <<>> /\ Parsed(k)}}
    \cup {ImgGood, Node("div", <<P(<<ImgGood>>)>>), H("h1", "", <<SomeText>>)}

LogoDocs == SeqsUpTo(LogoBlocks, MaxBody)

InitLogo ==
    /\ doc \in {StampDoc(d) : d \in LogoDocs}
    /\ pc = "logo"
    /\ files = {}
    /\ NoStyles
    /\ Fresh_run
    /\ NoConversion

SpecLogo == InitLogo /\ [][StepLogo]_vars

(***************************************************************************)
(* Properties of the logo deduplicator.                                    *)
(***************************************************************************)
\* an image that looks like the logo: logo file name in src, or the logo alt
LooksLikeLogo(img) == Occurs(LogoFile, img.src) \/ img.alt = LogoAlt

LogoImages(d) == SelectSeq(SelectTag(d, "img"), LooksLikeLogo)

InFirstParagraph(d, id) ==
    LET up == Parent(d, id)
    IN  up # 0 /\ up # BodyId /\ Get(d, up).tag = "p" /\ up = _first_tag_child(d)

ExactlyOneLogoFirst(d) ==
    /\ Len(LogoImages(d)) = 1
    /\ InFirstParagraph(d, Head(LogoImages(d)).nid)

LogoPassDone == pc = "banner"

LogoErrors == {"AttributeError", "ValueError"}

LogoPassEnded == pc = "banner" \/ (pc = "raised" /\ err \in LogoErrors)

\* C3: a document with more than one logo-like image leaves the logo
\* deduplicator with exactly one logo-like image, inside a paragraph that is
\* the first element child of body.
C3_ManyLogosBecomeOne ==
    (LogoPassDone /\ Len(LogoImages(pre)) > 1) => ExactlyOneLogoFirst(doc)

NonBlank(ks) == SelectSeq(ks, LAMBDA n : _is_tag(n) \/ n.words # <<>>)

\* C4: after the logo deduplicator the first element child of body is a
\* paragraph whose only non-whitespace child is the logo image.
C4_LogoSoleContent ==
    LogoPassDone =>
        /\ _first_tag_child(doc) # 0
        /\ LET first == Get(doc, _first_tag_child(doc))
           IN  /\ first.tag = "p"
               /\ Len(NonBlank(first.kids)) = 1
               /\ _is_canonical_logo_img(doc, Head(NonBlank(first.kids)))

\* a paragraph holding one image, which looks like the logo, and whitespace
LoneLogoParagraph(n) ==
    /\ n.tag = "p"
    /\ Len(NonBlank(n.kids)) = 1
    /\ Head(NonBlank(n.kids)).tag = "img"
    /\ LooksLikeLogo(Head(NonBlank(n.kids)))

\* C5: the logo deduplicator removes a whole paragraph only when it holds
\* nothing but one logo candidate and whitespace; otherwise only the candidate
\* image goes, so every other node of the input is still in the tree.
C5_OnlyCandidatesRemoved ==
    LogoPassDone =>
        \A i \in DOMAIN Flat(pre) :
            LET n == Flat(pre)[i]
                up == Parent(pre, n.nid)
            IN  \/ Has(doc, n.nid)
                \/ n.tag = "img" /\ LooksLikeLogo(n)
                \/ LoneLogoParagraph(n)
                \/ up # BodyId /\ LoneLogoParagraph(Get(pre, up))

\* C6: when after the first cleanup scan the first element child of body is
\* not the canonical logo paragraph but a correctly tagged logo image is still
\* in the tree, the pass finishes with that image in a paragraph that is the
\* first element child of body.
C6_LeftoverLogoPromoted ==
    (LogoPassEnded /\ scan1.err = "" /\ ~CurrentGood(scan1.d)
        /\ ExistingGood(scan1.d) # <<>>)
    => (pc = "banner" /\ InFirstParagraph(doc, Head(ExistingGood(scan1.d)).nid))

\* C7: when no correctly tagged logo image is left after the first cleanup
\* scan, the pass ends with a new paragraph as first element child of body
\* that holds a single image with the canonical remote src and the logo alt.
C7_LogoSynthesized ==
    (LogoPassEnded /\ scan1.err = "" /\ ExistingGood(scan1.d) = <<>>)
    => /\ pc = "banner"
       /\ _first_tag_child(doc) # 0
       /\ LET first == Get(doc, _first_tag_child(doc))
          IN  /\ ~Has(pre, first.nid)
              /\ first.tag = "p"
              /\ Len(first.kids) = 1
              /\ first.kids[1].tag = "img"
              /\ ~Has(pre, first.kids[1].nid)
              /\ first.kids[1].src = logo_canonical_remote
              /\ first.kids[1].alt = LogoAlt

\* C7 witness: logo candidates were cleaned away and a new logo was inserted
C7_Witness ==
    /\ pc = "banner"
    /\ scan1.err = ""
    /\ ExistingGood(scan1.d) = <<>>
    /\ LogoImages(pre) # <<>>
    /\ Len(doc) > 1

(***************************************************************************)
(* Inputs of the anchor normalizer.                                        *)
(***************************************************************************)
AnchorSites == {<<"", "">>, <<"https", SiteHost>>, <<"https", "example.com">>,
                <<"", "example.com">>}

AnchorPaths == {<<FALSE, <<>>, "">>, <<FALSE, <<>>, OutputBasename>>,
                <<TRUE, <<"csaf">>, OutputBasename>>,
                <<TRUE, <<"csaf">>, "other.html">>}

AnchorFrags == {<<FALSE, "">>, <<TRUE, "">>, <<TRUE, "sec">>}

\* a URL with a host has an empty or a rooted path
WellFormed(u) == (u.host # "" /\ ~PathEmpty(u)) => u.rooted

AnchorHrefs ==
    {u \in {Url(s[1], s[2], q[1], q[2], q[3], f[1], f[2]) :
                s \in AnchorSites, q \in AnchorPaths, f \in AnchorFrags} :
        WellFormed(u)}

AnchorPool ==
    {A(h, t, "", <<SomeText>>) : h \in AnchorHrefs \cup {NoUrl}, t \in {"", "_blank"}}

AnchorDocs == {<<P(ks)>> : ks \in SeqsUpTo(AnchorPool, MaxAnchors) \ {<<>>}}

InitAnchor ==
    /\ doc \in {StampDoc(d) : d \in AnchorDocs}
    /\ pc = "anchors"
    /\ files = {}
    /\ NoStyles
    /\ Fresh_run
    /\ NoConversion

SpecAnchor == InitAnchor /\ [][StepAnchors]_vars

(***************************************************************************)
(* Properties of the anchor normalizer.                                    *)
(***************************************************************************)
Anchors(d) == SelectSeq(SelectTag(d, "a"), LAMBDA n : n.href.has)

AnchorPassDone == pc = "linkify"

\* a fragment-bearing href that refers to the output document itself
RefersToSameDocument(u) ==
    \/ u.scheme = "" /\ u.host = "" /\ (PathEmpty(u) \/ u.base = OutputBasename)
    \/ (u.scheme # "" \/ u.host # "") /\ u.base = OutputBasename

\* C9: the anchor normalizer rewrites every href with a non-empty fragment F
\* that refers to the same document to exactly #F and drops its target; an
\* href with a fragment that does not refer to it keeps href and target.
C9_SameDocBecomesFragment ==
    AnchorPassDone =>
        \A i \in DOMAIN Anchors(pre) :
            LET a == Anchors(pre)[i]
                b == Get(doc, a.nid)
            IN  a.href.frag # "" =>
                    IF RefersToSameDocument(a.href)
                    THEN b.href = FragOnly(a.href.frag) /\ b.target = ""
                    ELSE b.href = a.href /\ b.target = a.target

\* C9 witness: an absolute URL to the output document with a fragment and a
\* target has been rewritten
C9_Witness ==
    /\ AnchorPassDone
    /\ \E i \in DOMAIN Anchors(pre) :
          LET a == Anchors(pre)[i]
          IN  /\ a.href.scheme = "https" /\ a.href.base = OutputBasename
              /\ a.href.frag = "sec" /\ a.target = "_blank"
              /\ Get(doc, a.nid).href = FragOnly("sec")

SecAbs == Url("https", SiteHost, TRUE, <<"csaf">>, OutputBasename, TRUE, "sec")

SecElsewhere ==
    Url("https", "example.com", TRUE, <<"docs">>, OutputBasename, TRUE, "sec")

OtherInScope == Url("https", SiteHost, TRUE, <<"csaf">>, "other.html", TRUE, "sec")

CssRemote == Url("https", "example.com", TRUE, <<"css">>, "site.css", FALSE, "")

FullBlocks ==
    {P(<<ImgGood>>), P(<<ImgGood, ImgGood>>), P(<<ImgOther>>),
     H("h1", "sec", <<A(NoUrl, "", "sec", <<SomeText>>), SomeText>>),
     H("h2", "", <<SomeText>>),
     Hr(""),
     P(<<A(FragOnly("sec"), "_blank", "", <<SomeText>>)>>),
     P(<<A(SecAbs, "_blank", "", <<SomeText>>)>>),
     P(<<A(OtherInScope, "_blank", "", <<SomeText>>)>>),
     P(<<Txt(<<Word("w"), UrlWord(SecElsewhere)>>)>>),
     P(<<Txt(<<UrlWord(OtherInScope)>>)>>),
     Node("figure", <<ImgGood>>),
     Node("nav", <<SomeText>>),
     Node("header", <<SomeText>>),
     Stylesheet("stylesheet", CssRemote)}

FullDocs == SeqsUpTo(FullBlocks, MaxBodyFull)

Init ==
    /\ doc \in {StampDoc(d) : d \in FullDocs}
    /\ pc = "begin"
    /\ files \in {{}, {LogoFile}}
    /\ css \in BOOLEAN
    /\ styles = {}
    /\ Fresh_run
    /\ NoConversion

Spec == Init /\ [][Next]_vars

(***************************************************************************)
(* Properties of the whole sequence.                                       *)
(***************************************************************************)
SequenceDone == pc = "done"

\* C1: when _post_process_html has completed, whatever the fetches did, the
\* document holds exactly one logo image, inside a paragraph that is the
\* first element child of body.
C1_OneLogoAtEnd == SequenceDone => ExactlyOneLogoFirst(doc)

LogoPlacement(d) ==
    [i \in DOMAIN LogoImages(d) |->
        <<LogoImages(d)[i].nid, InFirstParagraph(d, LogoImages(d)[i].nid)>>]

Hrefs(d) == [i \in DOMAIN Anchors(d) |-> <<Anchors(d)[i].nid, Anchors(d)[i].href>>]

AnchorsWithId(ks, id) ==
    {Flat(ks)[i].nid : i \in {j \in DOMAIN Flat(ks) :
                                 Flat(ks)[j].tag = "a" /\ Flat(ks)[j].id = id}}

\* the anchors nested in a heading that carry the heading's id
HeadingDuplicates(d) ==
    UNION {AnchorsWithId(Flat(d)[i].kids, Flat(d)[i].id) :
              i \in {j \in DOMAIN Flat(d) :
                        Flat(d)[j].tag \in HeadingTags /\ Flat(d)[j].id # ""}}

SecondRunDone == run = 2 /\ again = "output" /\ pc = "done" /\ dropped = {}

\* C2: a second run of _post_process_html on the output of the first, with
\* every fetch succeeding, changes neither the logo placement nor an anchor's
\* href nor the set of heading-nested anchors with the heading's id.
C2_SecondRunChangesNothing ==
    SecondRunDone =>
        /\ LogoPlacement(doc) = LogoPlacement(out1)
        /\ Hrefs(doc) = Hrefs(out1)
        /\ HeadingDuplicates(doc) = HeadingDuplicates(out1)

AfterAnchorPass == pc \in {"linkify", "assets", "relativize", "done"}

\* C8: an anchor whose href begins with '#' keeps its href and has no target
\* after the anchor normalizer, and still so at every later point of the run
\* up to the end of the sequence.
C8_FragmentLinksKept ==
    AfterAnchorPass =>
        \A i \in DOMAIN Anchors(atNorm) :
            LET a == Anchors(atNorm)[i]
            IN  StartsWithHash(a.href) =>
                    /\ Has(doc, a.nid)
                    /\ Get(doc, a.nid).href = a.href
                    /\ Get(doc, a.nid).target = ""

\* C8 witness: the sequence has ended and an anchor that had href #sec and a
\* target before the normalizer is still there
C8_Witness ==
    /\ pc = "done"
    /\ \E i \in DOMAIN Anchors(atNorm) :
          /\ Anchors(atNorm)[i].href = FragOnly("sec")
          /\ Anchors(atNorm)[i].target = "_blank"
          /\ Has(doc, Anchors(atNorm)[i].nid)

(***************************************************************************)
(* Inputs of the duplicate heading-anchor remover.                         *)
(***************************************************************************)
MaxHeadKids == 2

Em == Node("em", <<SomeText>>)

\* what an anchor may hold: nothing, plain text, text mixed with an element,
\* a single element around text
DupAnchorKids == {<<>>, <<SomeText>>, <<SomeText, Em>>, <<Em>>}

DupInlines ==
    {SomeText, Em}
    \cup {A(NoUrl, "", id, ks) : id \in {"x", "y"}, ks \in DupAnchorKids}

DupHeadings ==
    {H(t, id, ks) : t \in {"h1", "h1big", "h3"}, id \in {"", "x"},
                    ks \in {k \in SeqsUpTo(DupInlines, MaxHeadKids) :
                               k # <<>> /\ Parsed(k)}}

DupDocs == {<<h>> : h \in DupHeadings}

InitDup ==
    /\ doc \in {StampDoc(d) : d \in DupDocs}
    /\ pc = "dupanchors"
    /\ files = {}
    /\ NoStyles
    /\ Fresh_run
    /\ NoConversion

SpecDup == InitDup /\ [][StepDupAnchors]_vars

(***************************************************************************)
(* Properties of the duplicate heading-anchor remover.                     *)
(***************************************************************************)
DupPassDone == pc = "anchors"

\* C11: every heading with an id that holds an anchor with the same id has
\* no such anchor after the duplicate heading-anchor remover, and the text
\* of the heading is what it was, whatever the anchor held.
C11_DuplicateAnchorsUnwrapped ==
    DupPassDone =>
        \A i \in DOMAIN Flat(pre) :
            LET h == Flat(pre)[i]
            IN  (h.tag \in HeadingTags /\ h.id # ""
                    /\ AnchorsWithId(h.kids, h.id) # {})
                => LET g == Get(doc, h.nid)
                   IN  /\ AnchorsWithId(g.kids, g.id) = {}
                       /\ TextOf(g.kids) = TextOf(h.kids)

(***************************************************************************)
(* Inputs of the same-scope relativizer.                                   *)
(***************************************************************************)
MaxRelNodes == 1

Link(href) == [Node("link", <<>>) EXCEPT !.href = href]

Script(src) == [Node("script", <<>>) EXCEPT !.src = src]

RelSites == {<<"", "">>, <<"https", SiteHost>>, <<"http", SiteHost>>,
             <<"https", "example.com">>}

RelPaths == {<<TRUE, <<"csaf">>, OutputBasename>>,
             <<TRUE, <<"csaf">>, "other.html">>,
             <<TRUE, <<"csaf", "sub">>, OutputBasename>>,
             <<TRUE, <<"csaf">>, "">>,
             <<TRUE, <<"templates">>, "x.png">>,
             <<TRUE, <<>>, "csaf">>,
             <<FALSE, <<>>, "other.html">>}

RelFrags == {<<FALSE, "">>, <<TRUE, "sec">>}

RelUrls ==
    {u \in {Url(s[1], s[2], q[1], q[2], q[3], f[1], f[2]) :
                s \in RelSites, q \in RelPaths, f \in RelFrags} :
        WellFormed(u)}

\* an in-scope URL with a query string
QueryUrl ==
    [Url("https", SiteHost, TRUE, <<"csaf">>, "other.html", FALSE, "")
        EXCEPT !.query = "v=1"]

RelPool ==
    {A(u, t, "", <<SomeText>>) : u \in RelUrls, t \in {"", "_blank"}}
    \cup {Link(u) : u \in RelUrls}
    \cup {Script(u) : u \in RelUrls}
    \cup {Img(u, "pic") : u \in RelUrls}
    \cup {A(QueryUrl, "", "", <<SomeText>>)}

RelDocs == SeqsUpTo(RelPool, MaxRelNodes) \ {<<>>}

InitRel ==
    /\ doc \in {StampDoc(d) : d \in RelDocs}
    /\ pc = "relativize"
    /\ files = {}
    /\ NoStyles
    /\ Fresh_run
    /\ NoConversion

SpecRel == InitRel /\ [][StepRelativize]_vars

(***************************************************************************)
(* Properties of the same-scope relativizer.                               *)
(***************************************************************************)
\* the URL attribute the relativizer looks at, NoUrl for other elements
UrlOf(n) ==
    IF n.tag \in {"a", "link"} THEN n.href
    ELSE IF n.tag \in {"script", "img"} THEN n.src
    ELSE NoUrl

\* absolute, on the document's scheme and host, path below its directory
InScope(u) ==
    /\ u.has /\ u.scheme = _abs_doc_parsed.scheme /\ u.host = _abs_doc_parsed.host
    /\ u.rooted /\ IsPrefix(_abs_doc_dir, u.dir)
    /\ (Len(u.dir) > Len(_abs_doc_dir) \/ u.base # "")

\* the path of u relative to the document's directory
RelativePath(u) == RelFile(SubSeq(u.dir, Len(_abs_doc_dir) + 1, Len(u.dir)), u.base)

\* the path of u is the path of the absolute document URL
IsTheDocument(u) == u.dir = _abs_doc_parsed.dir /\ u.base = _abs_doc_parsed.base

RelPassDone == pc = "done"

\* C12: the relativizer rewrites every in-scope URL of an anchor, link,
\* script or img to its path relative to the document's directory, except
\* that an anchor whose path is the document's own path gets '#fragment' (or
\* the basename when it has no fragment) and loses its target, and only then.
C12_InScopeRelativized ==
    RelPassDone =>
        \A i \in DOMAIN Flat(pre) :
            LET n == Flat(pre)[i]
                u == UrlOf(n)
                r == Get(doc, n.nid)
            IN  InScope(u) =>
                    IF n.tag = "a" /\ IsTheDocument(u)
                    THEN /\ r.href = IF u.frag # "" THEN FragOnly(u.frag)
                                     ELSE RelFile(<<>>, u.base)
                         /\ r.target = ""
                    ELSE /\ UrlOf(r) = RelativePath(u)
                         /\ r.target = n.target

\* C13: the relativizer leaves every element alone whose URL is out of
\* scope: relative, on another scheme or host, or on the same host with a
\* path that is not below the document's directory.
C13_OutOfScopeUntouched ==
    RelPassDone =>
        \A i \in DOMAIN Flat(pre) :
            LET n == Flat(pre)[i]
                u == UrlOf(n)
            IN  (u.has /\ ~InScope(u)) => Get(doc, n.nid) = n

\* C13 witness: an absolute URL on another host, with a path below the
\* document's directory, went through the relativizer, and so did one on
\* the document's host outside the directory
C13_Witness ==
    /\ RelPassDone
    /\ \E i \in DOMAIN Flat(pre) :
          LET u == UrlOf(Flat(pre)[i])
          IN  /\ u.has /\ u.host = "example.com" /\ u.dir = <<"csaf">>
              /\ UrlOf(Get(doc, Flat(pre)[i].nid)) = u

(***************************************************************************)
(* Inputs of the asset localizer.                                          *)
(***************************************************************************)
MaxAssets == 2

\* another URL with the basename of PicRemote
PicMirror == Url("http", "mirror.example", TRUE, <<"x">>, "pic.png", FALSE, "")

\* a URL whose path ends in '/': it has no basename
PicDir == Url("https", "example.com", TRUE, <<"img">>, "", FALSE, "")

PicFtp == Url("ftp", "example.com", TRUE, <<"img">>, "pic.png", FALSE, "")

PicLocal == RelFile(<<images_subdir>>, "pic.png")

AssetPool ==
    {[Img(u, "pic") EXCEPT !.srcset = ss] :
        u \in {PicRemote, PicMirror, PicDir}, ss \in BOOLEAN}
    \cup {Img(PicFtp, "pic"), Img(NoUrl, "pic"),
          [Img(PicLocal, "pic") EXCEPT !.srcset = TRUE]}
    \cup {Stylesheet(rel, CssRemote) : rel \in {"stylesheet", "icon"}}
    \cup {Stylesheet("stylesheet", RelFile(<<styles_subdir>>, "site.css"))}

AssetDocs == SeqsUpTo(AssetPool, MaxAssets)

InitAssets ==
    /\ doc \in {StampDoc(d) : d \in AssetDocs}
    /\ pc = "assets"
    /\ files \in SUBSET {"pic.png"}
    /\ styles \in SUBSET {"site.css"}
    /\ css \in BOOLEAN
    /\ Fresh_run
    /\ NoConversion

SpecAssets == InitAssets /\ [][StepAssets \/ StepRelativize]_vars

(***************************************************************************)
(* Properties of the asset localizer.                                      *)
(***************************************************************************)
\* the elements whose fetch succeeded in the step
SucceededNow == {g.id : g \in got' \ got}

\* the images whose fetch was issued in the step and failed
FailedNow ==
    {fetches'[i].id : i \in {j \in DOMAIN fetches' :
                                /\ fetches'[j].dir = images_subdir
                                /\ fetches'[j].id \notin SucceededNow}}

\* when img is visited a file called name is there: it was there before the
\* pass, or an earlier image of the pass was fetched into it
LocalFileThere(img, name) ==
    \/ name \in files
    \/ \E g \in got' \ got :
          /\ g.dir = images_subdir /\ g.name = name
          /\ \E i, j \in DOMAIN WithSrc(doc) :
                i < j /\ WithSrc(doc)[i].nid = g.id /\ WithSrc(doc)[j].nid = img.nid

\* img has been localized to the file called name
LocalizedAs(img, name) ==
    /\ Has(doc', img.nid)
    /\ name \in files'
    /\ Get(doc', img.nid).src = RelFile(<<images_subdir>>, name)
    /\ ~Get(doc', img.nid).srcset

\* the asset localizer with name(u) as the local file name of URL u
ImagesLocalized(name(_)) ==
    pc = "assets" =>
        \A i \in DOMAIN SelectTag(doc, "img") :
            LET img == SelectTag(doc, "img")[i]
            IN  IF Remote(img.src)
                THEN (img.nid \in SucceededNow \/ LocalFileThere(img, name(img.src)))
                        => LocalizedAs(img, name(img.src))
                ELSE Has(doc', img.nid) /\ Get(doc', img.nid) = img

BasenameOf(u) == u.base

BasenameOrImage(u) == IF u.base = "" THEN "image" ELSE u.base

\* C14: every img with an http(s) src whose fetch succeeds, or whose file is
\* already there, ends the asset localization with src images/<basename of
\* the URL path>, that file in the images directory and no srcset; every
\* other img is left as it is.
C14_RemoteImagesLocalized == [][ImagesLocalized(BasenameOf)]_vars

\* C14 as amended: the same, with the file name 'image' for a URL whose
\* path has no basename.
C14_RemoteImagesLocalizedOrImage == [][ImagesLocalized(BasenameOrImage)]_vars

\* C14 witness: an image with srcset was fetched and localized, and an image
\* with another URL of the same basename was localized without a fetch
C14_Witness ==
    /\ pc = "relativize"
    /\ Len(fetches) = 1
    /\ \E g \in got :
          /\ Has(pre, g.id) /\ Get(pre, g.id).srcset
          /\ Get(doc, g.id).src = RelFile(<<images_subdir>>, g.name)
          /\ \E i \in DOMAIN WithSrc(pre) :
                LET other == WithSrc(pre)[i]
                IN  /\ other.nid # g.id /\ Remote(other.src)
                    /\ other.src # Get(pre, g.id).src
                    /\ Get(doc, other.nid).src = RelFile(<<images_subdir>>, g.name)

\* C16: when the fetch of an image fails the img leaves the tree and nothing
\* else does, every new file comes from a fetch that succeeded, every other
\* remote image is localized, and the sequence goes on without an error.
C16_FailedFetchDropsImage ==
    [][pc = "assets" =>
          /\ Ids(doc) \ Ids(doc') = FailedNow
          /\ files' = files \cup {g.name : g \in {h \in got' \ got :
                                                     h.dir = images_subdir}}
          /\ \A i \in DOMAIN WithSrc(doc) :
                LET img == WithSrc(doc)[i]
                IN  (Remote(img.src) /\ img.nid \notin FailedNow)
                        => LocalizedAs(img, image_filename(img.src))
          /\ err' = "" /\ pc' = "relativize"]_vars

\* C16 witness: the sequence has ended; one image was dropped after a failed
\* fetch and a later one was fetched and localized
C16_Witness ==
    /\ pc = "done"
    /\ err = ""
    /\ \E id \in dropped, g \in got : id < g.id /\ Has(doc, g.id)

\* C17: in one run no URL is requested twice.
C17_OneFetchPerUrl ==
    \A i, j \in DOMAIN fetches : fetches[i].url = fetches[j].url => i = j

(***************************************************************************)
(* Fetches over two runs.                                                  *)
(***************************************************************************)
\* the file of request f is there when the request is issued: it was there
\* before the pass, or an earlier request of the pass was written to it
FileThere(f, before) ==
    \/ f.dir = images_subdir /\ f.name \in files
    \/ f.dir = styles_subdir /\ f.name \in styles
    \/ \E j \in DOMAIN before :
          /\ before[j].id \in SucceededNow
          /\ before[j].dir = f.dir /\ before[j].name = f.name

\* C15: the asset localizer requests no image or stylesheet whose local file
\* is already there; so no run, whether over the same source or over the
\* output of the run before, requests a file that an earlier run fetched.
C15_NoFetchWhenFileThere ==
    [][pc = "assets" =>
          \A i \in DOMAIN fetches' :
              /\ ~FileThere(fetches'[i], SubSeq(fetches', 1, i - 1))
              /\ ~\E g \in got : g.dir = fetches'[i].dir /\ g.name = fetches'[i].name]_vars

\* C15 witness: a second run over the same source has passed the asset
\* localizer without a request, and the image the first run fetched is
\* localized again
C15_Witness ==
    /\ run = 2 /\ again = "source" /\ pc = "relativize"
    /\ fetches = <<>>
    /\ \E g \in got :
          /\ Has(pre, g.id) /\ Remote(Get(pre, g.id).src)
          /\ Has(doc, g.id) /\ Get(doc, g.id).src = RelFile(<<images_subdir>>, g.name)

(***************************************************************************)
(* Inputs of the banner normalizer.                                        *)
(***************************************************************************)
MaxBanner == 4

BannerBlocks ==
    {P(<<ImgGood>>), Hr(""), Hr(AvoidBreak), H("h1", "", <<SomeText>>),
     H("h2", "", <<SomeText>>), P(<<SomeText>>), Ws, Node("div", <<Hr("")>>)}

BannerDocs == {d \in SeqsUpTo(BannerBlocks, MaxBanner) : Parsed(d)}

InitBanner ==
    /\ doc \in {StampDoc(d) : d \in BannerDocs}
    /\ pc = "banner"
    /\ files = {}
    /\ NoStyles
    /\ Fresh_run
    /\ NoConversion

SpecBanner == InitBanner /\ [][StepBanner]_vars

(***************************************************************************)
(* Properties of the banner normalizer.                                    *)
(***************************************************************************)
BannerPassDone == pc = "dupanchors"

\* d has a canonical logo paragraph and a sibling heading after it
HasBanner(d) ==
    LogoParagraphs(d) # {} /\ HeadingsAfter(d, Least(LogoParagraphs(d))) # {}

LogoIndex(d) == Least(LogoParagraphs(d))

HeadingIndex(d) == Least(HeadingsAfter(d, LogoIndex(d)))

\* the siblings of d behind position i that are elements
ElementsAfter(d, i) == SelectSeq(SubSeq(d, i + 1, Len(d)), _is_tag)

\* C18: when the document has a canonical logo paragraph and a heading
\* behind it, the element right behind the logo paragraph after the banner
\* normalizer is an hr with the style 'page-break-before: avoid'.
C18_RuleFollowsLogo ==
    (BannerPassDone /\ HasBanner(pre)) =>
        LET i == CHOOSE i \in DOMAIN doc : doc[i].nid = pre[LogoIndex(pre)].nid
            next == ElementsAfter(doc, i)
        IN  /\ next # <<>>
            /\ Head(next).tag = "hr"
            /\ Head(next).style = AvoidBreak

\* the hr siblings strictly between the logo paragraph and the first heading
StrayRules(d) ==
    {d[i].nid : i \in {j \in (LogoIndex(d) + 1)..(HeadingIndex(d) - 1) :
                          d[j].tag = "hr"}}

\* h1big read as h1: the tag the first heading had
Untagged(d) ==
    [i \in DOMAIN d |-> [d[i] EXCEPT !.tag = IF @ = "h1big" THEN "h1" ELSE @]]

\* C19: the banner normalizer removes the hr siblings strictly between the
\* logo paragraph and the first heading behind it and nothing else: the
\* nodes of the input that are left are all the others, each as it was, in
\* their order; without logo paragraph or heading nothing goes.
C19_OnlyStrayRulesRemoved ==
    BannerPassDone =>
        LET gone == IF HasBanner(pre) THEN StrayRules(pre) ELSE {}
        IN  /\ Ids(pre) \ Ids(doc) = gone
            /\ Untagged(SelectSeq(doc, LAMBDA n : Has(pre, n.nid)))
                   = Untagged(SelectSeq(pre, LAMBDA n : n.nid \notin gone))

\* C19 witness: an hr stood between logo paragraph and heading and is gone;
\* a div between them that holds an hr of its own is still there, whole
C19_Witness ==
    /\ BannerPassDone
    /\ HasBanner(pre)
    /\ StrayRules(pre) # {}
    /\ \E i \in (LogoIndex(pre) + 1)..(HeadingIndex(pre) - 1) :
          /\ pre[i].tag = "div"
          /\ Has(doc, pre[i].nid)
          /\ SelectTag(Get(doc, pre[i].nid).kids, "hr") # <<>>

(***************************************************************************)
(* The first heading over the runs.                                        *)
(***************************************************************************)
BigHeadings(d) == SelectTag(d, "h1big")

\* C20: the banner normalizer changes the tag of the first sibling heading
\* behind the logo paragraph from h1 to h1big and no other tag; at no point
\* of any run does the document hold more than one h1big.
C20_OneBigHeading ==
    /\ Len(BigHeadings(doc)) <= 1
    /\ BannerPassDone =>
          \A i \in DOMAIN Flat(pre) :
              LET n == Flat(pre)[i]
                  first == HasBanner(pre) /\ n.nid = pre[HeadingIndex(pre)].nid
              IN  Has(doc, n.nid) =>
                      Get(doc, n.nid).tag =
                          IF first /\ n.tag = "h1" THEN "h1big" ELSE n.tag

\* C20 witness: a second run has ended; the first of two h1 is the h1big
C20_Witness ==
    /\ run = 2 /\ pc = "done"
    /\ Len(BigHeadings(doc)) = 1
    /\ SelectTag(doc, "h1") # <<>>

(***************************************************************************)
(* Inputs of the plain-URL linkifier.                                      *)
(***************************************************************************)
MaxWords == 3

QuotedUrl == Url("https", "example.com", TRUE, <<"docs">>, QuotedBase, FALSE, "")

LinkWords ==
    {Word("w"), Word(HttpWord), Word(TagWord), Word(EntityWord),
     Word(EscapedTagWord), UrlWord(SecElsewhere), UrlWord(QuotedUrl)}

LinkBlocks ==
    {P(<<Txt(ws)>>) : ws \in SeqsUpTo(LinkWords, MaxWords) \ {<<>>}}
    \cup {P(<<Txt(<<UrlWord(SecElsewhere)>>), Em>>),
          P(<<A(SecElsewhere, "", "", <<Txt(<<UrlWord(SecElsewhere)>>)>>)>>),
          Node("div", <<Txt(<<UrlWord(SecElsewhere)>>)>>),
          Node("div", <<P(<<Txt(<<Word("w"), UrlWord(SecElsewhere)>>)>>)>>)}

LinkDocs == {<<b>> : b \in LinkBlocks}

InitLinkify ==
    /\ doc \in {StampDoc(d) : d \in LinkDocs}
    /\ pc = "linkify"
    /\ files = {}
    /\ NoStyles
    /\ Fresh_run
    /\ NoConversion

SpecLinkify == InitLinkify /\ [][StepLinkify]_vars

(***************************************************************************)
(* Properties of the plain-URL linkifier.                                  *)
(***************************************************************************)
LinkifyDone == pc = "assets"

RECURSIVE Bare(_)
\* the nodes without their identities
Bare(ks) == [i \in DOMAIN ks |-> [ks[i] EXCEPT !.nid = 0, !.kids = Bare(@)]]

HasUrl(words) == \E i \in DOMAIN words : words[i].k = "url"

\* every URL of the text in an anchor with the URL as href and as text, the
\* other words as text
Wrapped(words) ==
    MergeText([i \in DOMAIN words |->
                  IF words[i].k = "url"
                  THEN A(words[i].url, "", "", <<Txt(<<words[i]>>)>>)
                  ELSE Txt(<<words[i]>>)])

PureText(p) == ~HasElement(p)

\* C21: in every paragraph without an element whose text holds URLs each URL
\* ends up in an anchor with the URL as href and as text, the rest of the
\* text as it was; every other paragraph is left as it is.
C21_PlainUrlsLinked ==
    LinkifyDone =>
        \A i \in DOMAIN SelectTag(pre, "p") :
            LET p == SelectTag(pre, "p")[i]
                q == Get(doc, p.nid)
            IN  IF PureText(p) /\ HasUrl(TextOf(p.kids))
                THEN Bare(q.kids) = Wrapped(TextOf(p.kids))
                ELSE Bare(<<q>>) = Bare(<<p>>)

\* C29: a paragraph of pure text that the linkifier rewrites has the text it
\* had, and the only elements in it are anchors.
C29_LinkifierKeepsText ==
    LinkifyDone =>
        \A i \in DOMAIN SelectTag(pre, "p") :
            LET p == SelectTag(pre, "p")[i]
                q == Get(doc, p.nid)
            IN  (PureText(p) /\ MentionsHttp(TextOf(p.kids))) =>
                    /\ TextOf(q.kids) = TextOf(p.kids)
                    /\ \A j \in DOMAIN Flat(q.kids) :
                          _is_tag(Flat(q.kids)[j]) => Flat(q.kids)[j].tag = "a"

(***************************************************************************)
(* Order of the passes.                                                    *)
(***************************************************************************)
\* the position of a pass in _post_process_html, lines 441-489
PassOrder ==
    <<"begin", "logo", "banner", "dupanchors", "anchors", "linkify", "assets",
      "relativize", "done">>

Rank(p) == CHOOSE i \in DOMAIN PassOrder : PassOrder[i] = p

\* within a run the passes are taken one after the other in PassOrder
InOrder ==
    (run' = run /\ pc' # pc) =>
        \/ pc = "logo" /\ pc' = "raised"
        \/ pc # "raised" /\ pc' # "raised" /\ Rank(pc') = Rank(pc) + 1

\* the asset step asks for stylesheets before it asks for images
StylesFirst ==
    pc = "assets" =>
        \A i, j \in DOMAIN fetches' :
            (fetches'[i].dir = styles_subdir /\ fetches'[j].dir = images_subdir)
                => i < j

\* the nodes the asset step of this run gave a local reference
Localized == {n \in {Flat(doc)[i] : i \in DOMAIN Flat(doc)} :
                 /\ Has(pre, n.nid)
                 /\ UrlOf(Get(pre, n.nid)) # UrlOf(n)}

\* the relativizer leaves the nodes alone that the asset step localized
LocalizedKept ==
    pc = "relativize" =>
        \A n \in Localized : Has(doc', n.nid) /\ Get(doc', n.nid) = n

\* C22: in every run the logo deduplicator runs before the banner
\* normalizer, the duplicate heading-anchor remover before the anchor
\* normalizer, the asset localizer (stylesheets, then images) before the
\* relativizer, and the relativizer changes no reference that the asset
\* localizer made local in that run.
C22_PassOrder == [][InOrder /\ StylesFirst /\ LocalizedKept]_vars

\* C22 witness: a run has ended in which a stylesheet and an image were
\* fetched and localized, and both references are still the local ones
C22_Witness ==
    /\ pc = "done" /\ run = 1
    /\ Len(fetches) = 2
    /\ \E g, h \in got :
          /\ g.dir = styles_subdir /\ h.dir = images_subdir
          /\ Get(doc, g.id).href = RelFile(<<styles_subdir>>, g.name)
          /\ Get(doc, h.id).src = RelFile(<<images_subdir>>, h.name)

(***************************************************************************)
(* Inputs of a pass that is applied twice.                                 *)
(***************************************************************************)
MaxIdem == 2

IdemBlocks ==
    {P(<<ImgGood>>), P(<<ImgGood, ImgGood>>), P(<<ImgOther, ImgGood>>),
     P(<<ImgBadAlt>>), P(<<SomeText, ImgGood>>), ImgGood, ImgBadAlt,
     Hr(""), Hr(AvoidBreak), H("h1", "", <<SomeText>>), H("h2", "", <<SomeText>>),
     P(<<SomeText>>), Ws,
     H("h1", "x", <<A(NoUrl, "", "x", <<SomeText, Em>>), SomeText>>),
     H("h3", "x", <<A(NoUrl, "", "x", <<A(NoUrl, "", "x", <<SomeText>>)>>)>>),
     P(<<A(SecAbs, "_blank", "", <<SomeText>>)>>),
     P(<<A(FragOnly("sec"), "_blank", "", <<SomeText>>)>>),
     P(<<A(OtherInScope, "_blank", "", <<SomeText>>)>>),
     Img(OtherInScope, "pic"), Link(OtherInScope),
     P(<<Txt(<<Word("w"), UrlWord(SecElsewhere)>>)>>),
     P(<<Txt(<<UrlWord(OtherInScope), Word(TagWord)>>)>>),
     P(<<Txt(<<Word(HttpWord), Word(EntityWord)>>)>>),
     P(<<Txt(<<Word(HttpWord), Word(EscapedTagWord)>>)>>)}

IdemDocs == {d \in SeqsUpTo(IdemBlocks, MaxIdem) : Parsed(d)}

InitIdem ==
    /\ doc \in {StampDoc(d) : d \in IdemDocs}
    /\ pc \in Passes
    /\ again = pc
    /\ source = doc
    /\ files = {}
    /\ NoStyles
    /\ run = 1 /\ err = "" /\ pre = <<>> /\ scan1 = NoScan /\ atNorm = <<>>
    /\ out1 = <<>> /\ fetches = <<>> /\ dropped = {} /\ got = {}
    /\ NoConversion

SpecIdem == InitIdem /\ [][PassAlone \/ Reapply]_vars

(***************************************************************************)
(* Properties of a pass that is applied twice.                             *)
(***************************************************************************)
\* the pass named p has been applied a second time
AppliedTwice(p) == run = 2 /\ again = p /\ pc # p

\* the second application has returned the tree it was given
NothingChanged == pc # "raised" /\ Bare(doc) = Bare(out1)

\* C23: each of the six passes, applied a second time to the tree it has
\* just produced, returns that tree unchanged.
C23_PassesIdempotent ==
    \A p \in Passes : AppliedTwice(p) => NothingChanged

(***************************************************************************)
(* Whole conversions: what pandoc makes of the Markdown file is any of     *)
(* the documents below; a temporary file or a PDF may be left from an      *)
(* earlier conversion.                                                     *)
(***************************************************************************)
ConvertDocs ==
    {<<b>> : b \in FullBlocks}
    \cup {<<>>, <<P(<<ImgOther, ImgGood>>)>>, <<H("h1", "", <<SomeText>>), P(<<ImgBadAlt, ImgBadAlt>>)>>}

InitConvert ==
    /\ doc \in {StampDoc(d) : d \in ConvertDocs}
    /\ pc = "convert"
    /\ files = {}
    /\ NoStyles
    /\ Fresh_run
    /\ temp \in BOOLEAN
    /\ written = FALSE
    /\ ran = NoRuns
    /\ pdf \in BOOLEAN
    /\ reported = ""

SpecConvert == InitConvert /\ [][StepConvert \/ StepPostProcess]_vars

\* step 1's convert() has returned or raised
ConvertFinished == pc \in {"returned", "failed"}

\* C24: when convert() of step 1 has finished, by returning or by raising
\* from any step, the temporary file temp_output.html does not exist.
C24_TempFileRemoved == ConvertFinished => ~temp

\* post-processing raised after pandoc had written the temporary file, and
\* convert() has finished by raising
C24_Witness ==
    /\ pc = "failed"
    /\ ran.pandoc = <<0>>
    /\ err \in LogoErrors
    /\ ~temp

\* some invocation of the tool exited with a non-zero status
Failed(tool) == \E i \in DOMAIN ran[tool] : ran[tool][i] # 0

\* where convert() of step 1 is once pandoc has exited with status zero
AfterPandoc ==
    {"read", "begin", "logo", "banner", "dupanchors", "anchors", "linkify",
     "assets", "relativize", "done", "raised", "returned"}

\* C25: pandoc and wkhtmltopdf are each invoked once per conversion and
\* never again; when pandoc exits non-zero, convert() goes no further,
\* raises CalledProcessError and the output file is not written; when
\* wkhtmltopdf exits non-zero, convert() raises and success is not reported.
C25_ToolFailureFatal ==
    /\ Len(ran.pandoc) <= 1
    /\ Len(ran.wkhtmltopdf) <= 1
    /\ ConvertFinished => Len(ran.pandoc) = 1
    /\ pc = "exit" => Len(ran.wkhtmltopdf) = 1
    /\ Failed("pandoc") =>
          /\ ~written
          /\ pc \notin AfterPandoc
          /\ pc = "failed" => err = "CalledProcessError"
    /\ Failed("wkhtmltopdf") =>
          /\ pc \in {"pdf_raised", "exit"}
          /\ reported # "success"
          /\ pc = "pdf_raised" => err = "CalledProcessError"

\* both tools have failed: nothing was written, and failure was reported
\* although a PDF file is there
C25_Witness ==
    /\ pc = "exit"
    /\ Failed("pandoc")
    /\ Failed("wkhtmltopdf")
    /\ ~written
    /\ pdf
    /\ reported = "failed"

(***************************************************************************)
(* The logo pass and exceptions.                                           *)
(***************************************************************************)
\* C26: the logo pass returns for every document: neither its scans nor
\* its promotion step raise.
C26_LogoPassNeverRaises == LogoPassEnded => (pc = "banner" /\ err = "")

(***************************************************************************)
(* Where a relativized link leads.                                         *)
(***************************************************************************)
\* the URL a browser makes of the reference u in a document at base
Resolve(base, u) ==
    IF u.scheme # "" \/ u.host # "" THEN u
    ELSE IF PathEmpty(u)
    THEN [base EXCEPT !.query = IF u.query # "" THEN u.query ELSE @,
                      !.hash = u.hash, !.frag = u.frag]
    ELSE [base EXCEPT !.dir = IF u.rooted THEN u.dir ELSE @ \o u.dir,
                      !.base = u.base, !.query = u.query,
                      !.hash = u.hash, !.frag = u.frag]

\* C27: the relativizer keeps the target of every in-scope anchor that
\* points to another document: the new href, resolved against the absolute
\* document URL, is the original URL, query string and fragment included.
C27_TargetPreserved ==
    RelPassDone =>
        \A i \in DOMAIN Flat(pre) :
            LET n == Flat(pre)[i]
            IN  (n.tag = "a" /\ InScope(n.href) /\ ~IsTheDocument(n.href)) =>
                    Resolve(_abs_doc_parsed, Get(doc, n.nid).href) = n.href

(***************************************************************************)
(* Where the content of a localized image comes from.                      *)
(***************************************************************************)
\* the step has written the file called name with what was served at u
WrittenFrom(name, u) ==
    \E j \in DOMAIN fetches' :
        /\ fetches'[j].dir = images_subdir
        /\ fetches'[j].name = name
        /\ fetches'[j].url = u
        /\ fetches'[j].id \in SucceededNow

\* C28: every remote img the asset localizer keeps points to a local file
\* that holds what was served at the img's own URL: the file was written in
\* this pass by a fetch of that URL, not by a fetch of another URL of the
\* same basename and not by an earlier run.
C28_LocalFileFromOwnUrl ==
    [][pc = "assets" =>
          \A i \in DOMAIN WithSrc(doc) :
              LET img == WithSrc(doc)[i]
              IN  (Remote(img.src) /\ Has(doc', img.nid)) =>
                      WrittenFrom(image_filename(img.src), img.src)]_vars

====
